---- MODULE Spec2Model ----
(***************************************************************************)
(* Model of the bridge chat server (src/server.js): the users registry,    *)
(* the rooms directory, the socket.io room membership of every connection  *)
(* and the event handlers installed in io.sockets.on('connection').        *)
(*                                                                         *)
(* One step of the model is one run of server code on the node event loop: *)
(* an event handler run to completion, or one deferred callback of         *)
(* socket.join (the transport completes a join, and calls the function     *)
(* passed to join, on the next tick of the loop).  Events of different     *)
(* connections arrive in different turns of the loop, so the deferred      *)
(* callbacks of a handler run before any event of another connection;      *)
(* several events of ONE connection can arrive in the same transport read  *)
(* and are then all handled before the first deferred callback runs.       *)
(***************************************************************************)
EXTENDS Integers, Sequences, FiniteSets, TLC

\* ------------------------------------------------------------------ bounds
\* Number of connections the transport ever opens (ids are never reused).
MaxConns == 2
\* Events of one connection handled back to back ahead of the deferred
\* callbacks queued by the first of them.
MaxBatch == 2
\* Socket objects one client process gets to create.
MaxSockets == 3
\* Events in flight, each way, on one client socket.
MaxQueue == 1
\* Rename commands whose once('username') listener is still installed.
MaxPending == 2

\* ------------------------------------------------------------- value sets
ConnIds == <<"c1", "c2", "c3", "c4", "c5">>
ConnId(i) == ConnIds[i]
Conns == {ConnId(i) : i \in 1..MaxConns}
Usernames == {"alice", "bob"}
\* A name nobody registers, as the target of a whisper.
Strangers == {"carol"}
\* Fixed room-name strings a client may send; "" is the bare '/room' command.
PlainRooms == {"", "default", "foo"}
\* Connection identifiers that are also tried as room names.
IdRooms == {ConnId(1)}
\* Namespaces of the multi-channel server: the default one and one opened
\* with the channel flag.
Channels == {"/", "/test"}

VARIABLES
    users,      \* server.js:22   array of {id, username, rooms}
    rooms,      \* server.js:25   array of {name, createdBy}
    connected,  \* per connection: "new" (not opened yet), "open", "closed"
    once,       \* per connection: the once('handshake') listener is still installed
    sockRooms,  \* per connection: socket.rooms, the keys in insertion order
    sids,       \* per connection: rooms the transport delivers to it (adapter)
    ticks,      \* deferred join callbacks, in the order they were queued
    chunk,      \* connection whose events are being handled ahead of ticks
    crashed,    \* an exception escaped a handler: the process is gone
    emitted,    \* what the last step emitted, in order
    last,       \* the last step: operation, connection, payload
    nsp         \* per connection: the namespace (channel) its client addresses

\* One client process.
VARIABLES
    variant,     \* which copy of the client runs
    socket,      \* client.js:20  the socket in use (0: none yet)
    username,    \* client.js:15  the local username
    sigintCount, \* client.js:32
    timeout,     \* part_000:366  the handshake timer is armed
    question,    \* the rl.question whose callback is outstanding
    exited,      \* process.exit() was called
    rlClosed,    \* rl.close() was called
    readyState,  \* per socket: none, opening, open, lost, dropped, closed
    listeners,   \* per socket: the listeners the client has on it
    outbox,      \* per socket: events emitted, not yet handled by the server
    inbox,       \* per socket: events the server sent, not yet received
    srvName,     \* the username the server has this client registered under
    awaiting,    \* a handshake was sent and no answer has come
    clast        \* the last step of the client

svars == <<users, rooms, connected, once, sockRooms, sids, ticks, chunk,
           crashed, emitted, last, nsp>>

cvars == <<variant, socket, username, sigintCount, timeout, question, exited,
           rlClosed, readyState, listeners, outbox, inbox, srvName, awaiting,
           clast>>

vars == <<svars, cvars>>

\* ---------------------------------------------------------------- helpers
Range(s) == {s[i] : i \in 1..Len(s)}

\* obj[key] = key on a JS object: a new key goes last, an old one stays put.
SetKey(s, k) == IF k \in Range(s) THEN s ELSE Append(s, k)

\* Array.prototype.findIndex over the indices that pass the test: the first
\* of them, 1-based; 0 when nothing matches (JS: -1, and find: undefined).
FindIndex(matches) ==
    IF matches = {} THEN 0
    ELSE CHOOSE i \in matches : \A j \in matches : i <= j

ByUsername(us, name) ==
    FindIndex({i \in 1..Len(us) : us[i].username = name})
ById(us, id) == FindIndex({i \in 1..Len(us) : us[i].id = id})

RECURSIVE Concat(_)
Concat(ss) == IF ss = <<>> THEN <<>> ELSE Head(ss) \o Concat(Tail(ss))

\* The rooms field of a registry entry is a reference to a rooms object of
\* the socket.  live: it is the object socket.rooms currently names; else it
\* is an object the socket has dropped (leaveAll), whose keys are val.
Live == [live |-> TRUE, val |-> <<>>]
Detached(keys) == [live |-> FALSE, val |-> keys]
RoomsIn(u, sr) == IF u.rooms.live THEN sr[u.id] ELSE u.rooms.val
RoomsOf(u) == RoomsIn(u, sockRooms)

\* mainSocket.to(room).emit(ev, data): delivered to every connected socket
\* the adapter has in that room (the sender included).
Members(a, room) == {c \in Conns : connected[c] = "open" /\ room \in a[c]}
Emit(a, ev, room, data) ==
    [ev |-> ev, to |-> room, rcpt |-> Members(a, room), data |-> data]

\* mainSocket as the handlers of connection c get it: the namespace c is
\* connected to, which has an adapter of its own, holding its sockets only.
mainSocket(c) == [d \in Conns |-> IF nsp[d] = nsp[c] THEN sids[d] ELSE {}]

Notice(msg) == [type |-> "notice", message |-> msg]

NoChunk == [c |-> "none", n |-> 0]
\* flag: data.first of a handshake; of a join callback, whether the handler
\* that queued it had just pushed the room to the directory.
Step(op, c, arg, from, flag) ==
    [op |-> op, c |-> c, arg |-> arg, from |-> from, flag |-> flag]

\* (Variant in which events are handled whether or not callbacks are queued.)
CanDispatch_Any(c) ==
    /\ ~crashed
    /\ connected[c] = "open"
    /\ ticks # <<>> => chunk.n < MaxBatch

\* An event of connection c can be handled now.
CanDispatch(c) ==
    /\ ~crashed
    /\ connected[c] = "open"
    /\ \/ ticks = <<>>
       \/ chunk.c = c /\ chunk.n < MaxBatch

\* An exception no handler catches ends the node process: every connection is
\* closed and the registry, the directory and the queued callbacks are gone.
Crash ==
    /\ crashed' = TRUE
    /\ users' = <<>>
    /\ rooms' = <<>>
    /\ connected' = [c \in Conns |-> "closed"]
    /\ once' = [c \in Conns |-> FALSE]
    /\ sockRooms' = [c \in Conns |-> <<>>]
    /\ sids' = [c \in Conns |-> {}]
    /\ ticks' = <<>>
    /\ chunk' = NoChunk
    /\ emitted' = <<>>
    /\ nsp' = nsp
    /\ UNCHANGED cvars

ChunkAfter(c, newTicks) ==
    IF newTicks = <<>> THEN NoChunk
    ELSE [c |-> c, n |-> IF ticks = <<>> THEN 1 ELSE chunk.n + 1]

\* ====================================================================
\* The client (src/client.js and the two older copies in
\* src/unnamed/part_000), run against any server that speaks the protocol.
\* ====================================================================

\* The three copies of the client under src/.
Variants == {"old", "timeout", "current"}

\* socket.io-client objects the client creates, one per socketio.connect().
Sockets == 1..MaxSockets

\* What the user types at the prompts.
NameLines == {"", "alice", "bob"}
AnswerLines == {"", "y", "Y", "yes", "Yes", "YES", "ye", "yess", "n", "no"}
Chars ==
    [line \in AnswerLines |->
        CASE line = ""     -> <<>>
          [] line = "y"    -> <<"y">>
          [] line = "Y"    -> <<"Y">>
          [] line = "yes"  -> <<"y", "e", "s">>
          [] line = "Yes"  -> <<"Y", "e", "s">>
          [] line = "YES"  -> <<"Y", "E", "S">>
          [] line = "ye"   -> <<"y", "e">>
          [] line = "yess" -> <<"y", "e", "s", "s">>
          [] line = "n"    -> <<"n">>
          [] line = "no"   -> <<"n", "o">>]

\* The i flag of the regular expression: letters compared in lower case.
Lower(ch) ==
    CASE ch = "Y" -> "y"
      [] ch = "E" -> "e"
      [] ch = "S" -> "s"
      [] OTHER -> ch

\* answer.match(/^y(es)?$/i)
MatchesYes(line) ==
    LET cs == Chars[line]
        low == [i \in 1..Len(cs) |-> Lower(cs[i])]
    IN  \/ low = <<"y">>
        \/ low = <<"y", "e", "s">>

\* Reasons the library gives to a disconnect listener.
Involuntary == {"transport close", "ping timeout"}
ClientClose == "io client disconnect"

NoListeners ==
    [connect |-> FALSE, hs |-> <<>>, message |-> 0, disconnect |-> 0,
     reconnect |-> 0, username |-> 0]

\* The listeners the 'Server: ' callback installs on the first socket
\* (connect_error and error, which only end the process, are left out).
FirstListeners == [NoListeners EXCEPT !.connect = TRUE, !.hs = <<"initial">>]

CStep(op, s, arg, sent, shown) ==
    [op |-> op, s |-> s, arg |-> arg, sent |-> sent, shown |-> shown]

\* The client process does not exist (server-only specifications).
ClientOff ==
    /\ variant = "current"
    /\ socket = 0
    /\ username = ""
    /\ sigintCount = 0
    /\ timeout = FALSE
    /\ question = "none"
    /\ exited = FALSE
    /\ rlClosed = FALSE
    /\ readyState = [s \in Sockets |-> "none"]
    /\ listeners = [s \in Sockets |-> NoListeners]
    /\ outbox = [s \in Sockets |-> <<>>]
    /\ inbox = [s \in Sockets |-> <<>>]
    /\ srvName = ""
    /\ awaiting = FALSE
    /\ clast = CStep("off", 0, "", 0, 0)

\* The server taken as the environment of the client: its own state is not
\* followed, only what it answers.
ServerOff ==
    /\ users = <<>>
    /\ rooms = <<[name |-> "default", createdBy |-> "system"]>>
    /\ connected = [c \in Conns |-> "new"]
    /\ once = [c \in Conns |-> FALSE]
    /\ sockRooms = [c \in Conns |-> <<>>]
    /\ sids = [c \in Conns |-> {}]
    /\ ticks = <<>>
    /\ chunk = NoChunk
    /\ crashed = FALSE
    /\ emitted = <<>>
    /\ last = Step("off", "none", "", "", FALSE)
    /\ nsp = [c \in Conns |-> "/"]

\* ------------------------------------------------------------------- Init
Init ==
    /\ users = <<>>
    /\ rooms = <<[name |-> "default", createdBy |-> "system"]>>
    /\ connected = [c \in Conns |-> "new"]
    /\ once = [c \in Conns |-> TRUE]
    /\ sockRooms = [c \in Conns |-> <<>>]
    /\ sids = [c \in Conns |-> {}]
    /\ ticks = <<>>
    /\ chunk = NoChunk
    /\ crashed = FALSE
    /\ emitted = <<>>
    /\ last = Step("init", "none", "", "", FALSE)
    /\ nsp = [c \in Conns |-> "/"]
    /\ ClientOff

\* The server of src/README.md, started with one channel besides the default:
\* openSocket installs the same listeners, over the same users and rooms, on
\* every namespace.  A connection's namespace is fixed when it connects.
InitChannels ==
    /\ users = <<>>
    /\ rooms = <<[name |-> "default", createdBy |-> "system"]>>
    /\ connected = [c \in Conns |-> "new"]
    /\ once = [c \in Conns |-> TRUE]
    /\ sockRooms = [c \in Conns |-> <<>>]
    /\ sids = [c \in Conns |-> {}]
    /\ ticks = <<>>
    /\ chunk = NoChunk
    /\ crashed = FALSE
    /\ emitted = <<>>
    /\ last = Step("init", "none", "", "", FALSE)
    /\ nsp \in {f \in [Conns -> Channels] : f[ConnId(1)] = "/"}
    /\ ClientOff

\* ------------------------------------------------------------- connection
\* io.sockets.on('connection'): the transport has put the socket in the room
\* named by its id; the handler joins 'default'.  Both joins complete before
\* the client can send anything.
Connection(c) ==
    /\ ~crashed
    /\ ticks = <<>>
    /\ connected[c] = "new"
    /\ \A d \in Conns : connected[d] = "new" => \E i, j \in 1..MaxConns :
            ConnId(i) = c /\ ConnId(j) = d /\ i <= j
    /\ connected' = [connected EXCEPT ![c] = "open"]
    /\ sockRooms' = [sockRooms EXCEPT ![c] = <<c, "default">>]
    /\ sids' = [sids EXCEPT ![c] = {c, "default"}]
    /\ emitted' = <<>>
    /\ last' = Step("connection", c, "", "", FALSE)
    /\ UNCHANGED <<cvars, nsp, users, rooms, once, ticks, chunk, crashed>>

\* ------------------------------------------------------------- handleSend
handleSend(c, a, data) ==
    LET out == SelectSeq(sockRooms[c], LAMBDA room : room # c)
    IN  [i \in 1..Len(out) |-> Emit(a, "message", out[i], data)]

\* -------------------------------------------------------- handleHandshake
NewUser(c, name) == [id |-> c, username |-> name, rooms |-> Live]

\* handleHandshake without the username query on the first handshake.
handleHandshake_NoQuery(c, first, name) ==
    /\ users' = Append(users, NewUser(c, name))
    /\ emitted' =
            <<Emit(mainSocket(c), "handshake", c, [type |-> "confirm"])>>
            \o (IF first
                THEN handleSend(c, mainSocket(c), Notice(<<"joined", name, "default">>))
                ELSE <<>>)

handleHandshake(c, first, name) ==
    LET query == ByUsername(users, name) IN
    IF first
    THEN IF query = 0
         THEN /\ users' = Append(users, NewUser(c, name))
              /\ emitted' =
                    <<Emit(mainSocket(c), "handshake", c, [type |-> "confirm"])>>
                    \o handleSend(c, mainSocket(c),
                          Notice(<<"joined", name, "default">>))
         ELSE /\ users' = users
              /\ emitted' = <<Emit(mainSocket(c), "handshake", c,
                    [type |-> "denied", reason |-> "Username already exists"])>>
    ELSE /\ users' = Append(users, NewUser(c, name))
         /\ emitted' = <<Emit(mainSocket(c), "handshake", c, [type |-> "confirm"])>>

\* (Variant with socket.on in place of socket.once: every handshake event
\* is handled.)
Handshake_Repeat(c, first, name) ==
    /\ CanDispatch(c)
    /\ once' = [once EXCEPT ![c] = FALSE]
    /\ handleHandshake(c, first, name)
    /\ chunk' = ChunkAfter(c, ticks)
    /\ last' = Step("handshake", c, name, "", first)
    /\ UNCHANGED <<cvars, nsp, rooms, connected, sockRooms, sids, ticks, crashed>>

\* socket.once('handshake')
Handshake(c, first, name) ==
    /\ CanDispatch(c)
    /\ once[c]
    /\ once' = [once EXCEPT ![c] = FALSE]
    /\ handleHandshake(c, first, name)
    /\ chunk' = ChunkAfter(c, ticks)
    /\ last' = Step("handshake", c, name, "", first)
    /\ UNCHANGED <<cvars, nsp, rooms, connected, sockRooms, sids, ticks, crashed>>

\* A handshake event after the first: the once listener is gone.
HandshakeAgain(c) ==
    /\ CanDispatch(c)
    /\ ~once[c]
    /\ emitted' = <<>>
    /\ chunk' = ChunkAfter(c, ticks)
    /\ last' = Step("handshake_again", c, "", "", FALSE)
    /\ UNCHANGED <<cvars, nsp, users, rooms, connected, once, sockRooms, sids, ticks,
                   crashed>>

\* -------------------------------------------------------------- send
\* What a client can put in a send event: the chat line of client.js, with
\* any username field, or a payload of another type.
SendPayloads ==
    {[type |-> "chat", message |-> <<"text">>, username |-> n] :
        n \in Usernames}
    \cup {[type |-> "notice", message |-> <<"text">>, username |-> ""]}

\* socket.on('send')
Send(c, data) ==
    /\ CanDispatch(c)
    /\ emitted' = handleSend(c, mainSocket(c), data)
    /\ chunk' = ChunkAfter(c, ticks)
    /\ last' = Step("send", c, data.type, data.username, FALSE)
    /\ UNCHANGED <<cvars, nsp, users, rooms, connected, once, sockRooms, sids, ticks,
                   crashed>>

\* ----------------------------------------------------------- handleWhisper
handleWhisper(c, to, from) ==
    LET query == ByUsername(users, to) IN
    IF query # 0
    THEN <<Emit(mainSocket(c), "message", users[query].id,
              [type |-> "tell", to |-> to, from |-> from,
               message |-> <<"text">>])>>
    ELSE <<Emit(mainSocket(c), "message", c, Notice(<<"nouser", to>>))>>

\* socket.on('whisper')
Whisper(c, to, from) ==
    /\ CanDispatch(c)
    /\ emitted' = handleWhisper(c, to, from)
    /\ chunk' = ChunkAfter(c, ticks)
    /\ last' = Step("whisper", c, to, from, FALSE)
    /\ UNCHANGED <<cvars, nsp, users, rooms, connected, once, sockRooms, sids, ticks,
                   crashed>>

\* -------------------------------------------------------- handleChangeRoom
\* socket.leaveAll(): the adapter forgets the socket and socket.rooms becomes
\* a NEW empty object; a registry entry holding the old object keeps it.
DropRooms(us, c) ==
    [i \in 1..Len(us) |->
        IF us[i].id = c /\ us[i].rooms.live
        THEN [us[i] EXCEPT !.rooms = Detached(sockRooms[c])]
        ELSE us[i]]

\* The part of handleChangeRoom that runs inside the event handler: leaveAll,
\* join(id), join(room, fn).  Each join enters the adapter at once; the key
\* is written to socket.rooms, and fn called, by a deferred callback.
handleChangeRoom(c, room) ==
    /\ users' = DropRooms(users, c)
    /\ sockRooms' = [sockRooms EXCEPT ![c] = <<>>]
    /\ sids' = [sids EXCEPT ![c] = {c, room}]
    /\ ticks' = ticks \o
            <<[c |-> c, room |-> c, fn |-> FALSE, created |-> FALSE],
              [c |-> c, room |-> room, fn |-> TRUE,
               created |-> Len(rooms') > Len(rooms)]>>

\* The deferred callback of a join.  With fn: lines 118-126.
Joined ==
    /\ ~crashed
    /\ ticks # <<>>
    /\ LET t == Head(ticks)
           c == t.c
           userIndex == ById(users, c)
       IN  /\ last' = Step(IF t.fn THEN "joined" ELSE "joined_id", c, t.room,
                           "", t.created)
           /\ IF t.fn /\ userIndex = 0
              THEN \* users[-1].username: TypeError, uncaught
                   Crash
              ELSE /\ ticks' = Tail(ticks)
                   /\ sockRooms' =
                        [sockRooms EXCEPT ![c] = SetKey(sockRooms[c], t.room)]
                   /\ chunk' = NoChunk
                   /\ IF t.fn
                      THEN /\ emitted' = <<Emit(mainSocket(c), "message", t.room,
                                Notice(<<"joined", users[userIndex].username,
                                         t.room>>))>>
                           /\ users' = [users EXCEPT ![userIndex].rooms = Live]
                      ELSE /\ emitted' = <<>>
                           /\ users' = users
                   /\ UNCHANGED <<cvars, nsp, rooms, connected, once, sids, crashed>>

\* ----------------------------------------------------------- handleNewRoom
handleNewRoom(c, room) ==
    /\ rooms' = Append(rooms, [name |-> room, createdBy |-> c])
    /\ emitted' = <<Emit(mainSocket(c), "message", c, Notice(<<"newroom", room>>))>>
    /\ handleChangeRoom(c, room)

\* A room name a client can come to send: a fixed string, its own socket id,
\* or the id of a registered user (list_users prints them).
CanName(c, r) ==
    \/ r \in PlainRooms
    \/ r \in IdRooms /\ (r = c \/ ById(users, r) # 0)

\* (Variant that never looks the name up in the directory.)
Room_NoLookup(c, r) ==
    /\ CanDispatch(c)
    /\ CanName(c, r)
    /\ handleNewRoom(c, IF r # "" THEN r ELSE "default")
    /\ chunk' = ChunkAfter(c, ticks')
    /\ last' = Step("room", c, r, "", FALSE)
    /\ UNCHANGED <<cvars, nsp, connected, once, crashed>>

\* socket.on('room') with payload {room: r}
Room(c, r) ==
    /\ CanDispatch(c)
    /\ CanName(c, r)
    /\ LET targetRoom == IF r # "" THEN r ELSE "default" IN
       IF \E i \in 1..Len(rooms) : rooms[i].name = targetRoom
       THEN /\ rooms' = rooms
            /\ emitted' = <<>>
            /\ handleChangeRoom(c, targetRoom)
       ELSE handleNewRoom(c, targetRoom)
    /\ chunk' = ChunkAfter(c, ticks')
    /\ last' = Step("room", c, r, "", FALSE)
    /\ UNCHANGED <<cvars, nsp, connected, once, crashed>>

\* socket.on('room') with no payload: data.room throws a TypeError.
RoomNoPayload(c) ==
    /\ CanDispatch(c)
    /\ Crash
    /\ last' = Step("room_nopayload", c, "", "", FALSE)

\* ---------------------------------------------------- handleChangeUsername
handleChangeUsername(c, name) ==
    LET userIndex == ById(users, c) IN
    IF userIndex = 0
    THEN \* users[-1].username: TypeError, uncaught
         Crash
    ELSE /\ emitted' =
              handleSend(c, mainSocket(c),
                  Notice(<<"renamed", users[userIndex].username, name>>))
              \o <<Emit(mainSocket(c), "username", c,
                       [type |-> "confirm", username |-> name])>>
         /\ users' = [users EXCEPT ![userIndex].username = name]
         /\ chunk' = ChunkAfter(c, ticks)
         /\ UNCHANGED <<cvars, nsp, rooms, connected, once, sockRooms, sids, ticks,
                        crashed>>

\* The username listener without its query: every request is carried out.
Username_NoQuery(c, name) ==
    /\ CanDispatch(c)
    /\ handleChangeUsername(c, name)
    /\ last' = Step("username", c, name, "", FALSE)

\* socket.on('username')
Username(c, name) ==
    /\ CanDispatch(c)
    /\ LET query == ByUsername(users, name) IN
       IF query = 0
       THEN handleChangeUsername(c, name)
       ELSE /\ emitted' =
                 <<Emit(mainSocket(c), "username", c, [type |-> "denied"]),
                   Emit(mainSocket(c), "message", c, Notice(<<"inuse", name>>))>>
            /\ chunk' = ChunkAfter(c, ticks)
            /\ UNCHANGED <<cvars, nsp, users, rooms, connected, once, sockRooms, sids,
                           ticks, crashed>>
    /\ last' = Step("username", c, name, "", FALSE)

\* --------------------------------------------------------- handleListUsers
handleListUsers(c) ==
    Concat([i \in 1..Len(users) |->
        LET user == users[i]
            out == SelectSeq(RoomsOf(user), LAMBDA room : room # user.id)
        IN  [k \in 1..Len(out) |->
                Emit(mainSocket(c), "message", c,
                     Notice(<<"user", user.id, user.username, out[k]>>))]])

\* socket.on('list_users')
ListUsers(c) ==
    /\ CanDispatch(c)
    /\ emitted' = handleListUsers(c)
    /\ chunk' = ChunkAfter(c, ticks)
    /\ last' = Step("list_users", c, "", "", FALSE)
    /\ UNCHANGED <<cvars, nsp, users, rooms, connected, once, sockRooms, sids, ticks,
                   crashed>>

\* -------------------------------------------------------------- disconnect
\* (Variant that leaves the registry alone.)
Disconnect_NoFilter(c) ==
    /\ ~crashed
    /\ ticks = <<>>
    /\ connected[c] = "open"
    /\ connected' = [connected EXCEPT ![c] = "closed"]
    /\ sockRooms' = [sockRooms EXCEPT ![c] = <<>>]
    /\ sids' = [sids EXCEPT ![c] = {}]
    /\ users' = users
    /\ once' = [once EXCEPT ![c] = FALSE]
    /\ emitted' = <<>>
    /\ last' = Step("disconnect", c, "", "", FALSE)
    /\ UNCHANGED <<cvars, nsp, rooms, ticks, chunk, crashed>>

\* The transport closes the socket (it leaves all rooms) and then runs
\* socket.on('disconnect').
Disconnect(c) ==
    /\ ~crashed
    /\ ticks = <<>>
    /\ connected[c] = "open"
    /\ connected' = [connected EXCEPT ![c] = "closed"]
    /\ sockRooms' = [sockRooms EXCEPT ![c] = <<>>]
    /\ sids' = [sids EXCEPT ![c] = {}]
    /\ users' = SelectSeq(users, LAMBDA user : user.id # c)
    /\ once' = [once EXCEPT ![c] = FALSE]
    /\ emitted' = <<>>
    /\ last' = Step("disconnect", c, "", "", FALSE)
    /\ UNCHANGED <<cvars, nsp, rooms, ticks, chunk, crashed>>

Next ==
    \/ \E c \in Conns : Connection(c)
    \/ \E c \in Conns, first \in BOOLEAN, name \in Usernames :
            Handshake(c, first, name)
    \/ \E c \in Conns : HandshakeAgain(c)
    \/ \E c \in Conns, data \in SendPayloads : Send(c, data)
    \/ \E c \in Conns, to \in Usernames \cup Strangers, from \in Usernames :
            Whisper(c, to, from)
    \/ \E c \in Conns, r \in PlainRooms \cup IdRooms : Room(c, r)
    \/ \E c \in Conns : RoomNoPayload(c)
    \/ Joined
    \/ \E c \in Conns, name \in Usernames : Username(c, name)
    \/ \E c \in Conns : ListUsers(c)
    \/ \E c \in Conns : Disconnect(c)

Spec == Init /\ [][Next]_vars

SpecChannels == InitChannels /\ [][Next]_vars

\* The client right after start: rl.question('Server: ') is outstanding.
InitClient ==
    /\ ServerOff
    /\ variant \in Variants
    /\ socket = 0
    /\ username = ""
    /\ sigintCount = 0
    /\ timeout = FALSE
    /\ question = "server"
    /\ exited = FALSE
    /\ rlClosed = FALSE
    /\ readyState = [s \in Sockets |-> "none"]
    /\ listeners = [s \in Sockets |-> NoListeners]
    /\ outbox = [s \in Sockets |-> <<>>]
    /\ inbox = [s \in Sockets |-> <<>>]
    /\ srvName = ""
    /\ awaiting = FALSE
    /\ clast = CStep("init", 0, "", 0, 0)

\* socket.emit(...) on socket s: the packet is on its way to the server, or
\* buffered until s is connected.
Push(q, s, m) == [q EXCEPT ![s] = Append(@, m)]
HasRoom(q, s) == s \in Sockets /\ Len(q[s]) < MaxQueue

\* process.exit(), after rl.close() or not: the sockets, their listeners and
\* whatever was in flight go with the process.
Exit(closed, step) ==
    /\ exited' = TRUE
    /\ rlClosed' = closed
    /\ clast' = step
    /\ socket' = 0
    /\ username' = ""
    /\ sigintCount' = 0
    /\ timeout' = FALSE
    /\ question' = "none"
    /\ readyState' = [s \in Sockets |-> "closed"]
    /\ listeners' = [s \in Sockets |-> NoListeners]
    /\ outbox' = [s \in Sockets |-> <<>>]
    /\ inbox' = [s \in Sockets |-> <<>>]
    /\ srvName' = ""
    /\ awaiting' = FALSE
    /\ UNCHANGED variant

\* The client is Active: chat() has put its handlers on the socket in use.
Active ==
    /\ ~exited
    /\ socket \in Sockets
    /\ listeners[socket].message > 0

\* rl.question(query, cb) of node's readline: with a question outstanding it
\* only prints the prompt again, and cb is never called.
Ask(q) == IF question = "none" THEN q ELSE question

\* chat(): removeAllListeners on the socket in use, then message, disconnect
\* and reconnect listeners on it.
chat(L, sk) ==
    [L EXCEPT ![sk] = [NoListeners EXCEPT
                            !.message = 1, !.disconnect = 1, !.reconnect = 1]]

\* The callback of rl.question('Server: '): socketio.connect and the
\* listeners of the first socket.
QuestionServer ==
    /\ ~exited /\ ~rlClosed
    /\ question = "server"
    /\ question' = "none"
    /\ socket' = 1
    /\ readyState' = [readyState EXCEPT ![1] = "opening"]
    /\ listeners' = [listeners EXCEPT ![1] = FirstListeners]
    /\ clast' = CStep("server", 1, "", 0, 0)
    /\ UNCHANGED <<svars, variant, username, sigintCount, timeout, exited,
                   rlClosed, outbox, inbox, srvName, awaiting>>

\* The transport of socket s connects for the first time; socket.once('connect').
Connect(s) ==
    /\ ~exited
    /\ readyState[s] = "opening"
    /\ readyState' = [readyState EXCEPT ![s] = "open"]
    /\ IF listeners[s].connect
       THEN /\ listeners' = [listeners EXCEPT ![s].connect = FALSE]
            /\ question' = Ask("username")
       ELSE UNCHANGED <<listeners, question>>
    /\ clast' = CStep("connect", s, "", 0, 0)
    /\ UNCHANGED <<svars, variant, socket, username, sigintCount, timeout,
                   exited, rlClosed, outbox, inbox, srvName, awaiting>>

\* The callback of rl.question('Username: ').
QuestionUsername(input) ==
    /\ ~exited /\ ~rlClosed
    /\ question = "username"
    /\ HasRoom(outbox, socket)
    /\ IF input # ""
       THEN /\ question' = "none"
            /\ username' = input
            /\ outbox' = Push(outbox, socket,
                    [ev |-> "handshake", first |-> TRUE, username |-> input])
            /\ timeout' = (variant = "timeout")
            /\ awaiting' = TRUE
            /\ clast' = CStep("username_q", socket, input, 1, 0)
            /\ UNCHANGED <<variant, socket, sigintCount, exited, rlClosed,
                           readyState, listeners, inbox, srvName>>
       ELSE Exit(FALSE, CStep("username_q", socket, input, 0, 0))
    /\ UNCHANGED svars

\* rl.on('SIGINT')
Sigint ==
    /\ ~exited /\ ~rlClosed
    /\ IF sigintCount + 1 > 1
       THEN Exit(FALSE, CStep("sigint", 0, "", 0, 0))
       ELSE /\ sigintCount' = sigintCount + 1
            /\ question' = Ask("exit")
            /\ clast' = CStep("sigint", 0, "", 0, 0)
            /\ UNCHANGED <<variant, socket, username, timeout, exited,
                           rlClosed, readyState, listeners, outbox, inbox,
                           srvName, awaiting>>
    /\ UNCHANGED svars

\* The callback of rl.question('Are you sure you want to exit? (y/n): ').
QuestionExit(answer) ==
    /\ ~exited /\ ~rlClosed
    /\ question = "exit"
    /\ IF MatchesYes(answer)
       THEN Exit(FALSE, CStep("exit_q", 0, answer, 0, 0))
       ELSE /\ question' = "none"
            /\ sigintCount' = 0
            /\ clast' = CStep("exit_q", 0, answer, 0, 0)
            /\ UNCHANGED <<variant, socket, username, timeout, exited,
                           rlClosed, readyState, listeners, outbox, inbox,
                           srvName, awaiting>>
    /\ UNCHANGED svars

\* rl.on('line') with a line that is no command: a chat message is emitted
\* on the socket in use.  (The server sends no answer to it, so the packet is
\* not followed.)
LineChat ==
    /\ ~exited /\ ~rlClosed
    /\ question = "none"
    /\ socket \in Sockets
    /\ clast' = CStep("line", socket, username, 0, 0)
    /\ UNCHANGED <<svars, variant, socket, username, sigintCount, timeout,
                   question, exited, rlClosed, readyState, listeners, outbox,
                   inbox, srvName, awaiting>>

\* chatCommands, case 'username', with a non-empty argument.
CmdUsername(arg) ==
    /\ ~exited /\ ~rlClosed
    /\ question = "none"
    /\ HasRoom(outbox, socket)
    /\ listeners[socket].username < MaxPending
    /\ outbox' = Push(outbox, socket, [ev |-> "username", username |-> arg])
    /\ IF variant = "old"
       THEN /\ username' = arg
            /\ UNCHANGED listeners
       ELSE /\ listeners' = [listeners EXCEPT ![socket].username = @ + 1]
            /\ UNCHANGED username
    /\ clast' = CStep("cmd_username", socket, arg, 0, 0)
    /\ UNCHANGED <<svars, variant, socket, sigintCount, timeout, question,
                   exited, rlClosed, readyState, inbox, srvName, awaiting>>

\* socket.once('disconnect') of chat(), called with the library's reason.
\* (Variant that takes the reconnect branch whatever the reason.)
onDisconnect_AnyReason(L, reason) ==
    [ls |-> [L EXCEPT ![socket].message = 0],
     sk |-> socket + 1,
     rs |-> "opening"]

\* (Variant that leaves the message listener on the old socket.)
onDisconnect_KeepMessage(L, reason) ==
    IF reason = ClientClose
    THEN [ls |-> L, sk |-> socket, rs |-> "none"]
    ELSE [ls |-> L, sk |-> socket + 1, rs |-> "opening"]

\* ls: the listeners afterwards; sk: the socket in use afterwards; rs: the
\* state of the socket socketio.connect() made, if it made one.
onDisconnect(L, reason) ==
    IF reason = ClientClose
    THEN [ls |-> L, sk |-> socket, rs |-> "none"]
    ELSE [ls |-> [L EXCEPT ![socket].message = 0],
          sk |-> socket + 1,
          rs |-> "opening"]

\* Socket s is disconnected: by a transport failure (the manager of s will
\* reconnect it) or by a local close (it will not).  What was in flight on s
\* is lost.
SocketDisconnect(s, reason) ==
    /\ ~exited
    /\ readyState[s] = "open"
    /\ socket < MaxSockets
    /\ LET gone == IF reason = ClientClose THEN "closed"
                   ELSE IF s = socket THEN "lost" ELSE "dropped"
           L == [listeners EXCEPT ![s].disconnect = 0]
           r == onDisconnect(L, reason)
       IN  IF listeners[s].disconnect > 0
           THEN /\ listeners' = r.ls
                /\ socket' = r.sk
                /\ readyState' =
                     IF r.sk = socket
                     THEN [readyState EXCEPT ![s] = gone]
                     ELSE [readyState EXCEPT ![s] = gone, ![r.sk] = r.rs]
           ELSE /\ readyState' = [readyState EXCEPT ![s] = gone]
                /\ UNCHANGED <<listeners, socket>>
    /\ outbox' = [outbox EXCEPT ![s] = <<>>]
    /\ inbox' = [inbox EXCEPT ![s] = <<>>]
    /\ clast' = CStep("disconnect", s, reason, 0, 0)
    /\ UNCHANGED <<svars, variant, username, sigintCount, timeout, question,
                   exited, rlClosed, srvName, awaiting>>

\* The manager of socket s has reconnected it; socket.once('reconnect') of
\* chat(): a handshake, and a handshake listener, on the socket in use.
Reconnect(s) ==
    /\ ~exited
    /\ readyState[s] \in {"lost", "dropped"}
    /\ readyState' = [readyState EXCEPT ![s] = "open"]
    /\ IF listeners[s].reconnect > 0
       THEN /\ HasRoom(outbox, socket)
            /\ outbox' = Push(outbox, socket,
                 [ev |-> "handshake", first |-> FALSE, username |-> username])
            /\ listeners' =
                 [[listeners EXCEPT ![s].reconnect = 0]
                    EXCEPT ![socket].hs = Append(@, "reconnect")]
            /\ awaiting' = TRUE
            /\ clast' = CStep("reconnect", s, readyState[s], 1, 0)
       ELSE /\ clast' = CStep("reconnect", s, readyState[s], 0, 0)
            /\ UNCHANGED <<outbox, listeners, awaiting>>
    /\ UNCHANGED <<svars, variant, socket, username, sigintCount, timeout,
                   question, exited, rlClosed, inbox, srvName>>

\* The server handles the oldest event socket s has sent, a handshake or a
\* username request, and answers with confirm or denied (which of the two
\* depends on the other users, who are not followed here).
ServerAnswers(s, type) ==
    /\ ~exited
    /\ readyState[s] = "open"
    /\ outbox[s] # <<>>
    /\ Len(inbox[s]) < MaxQueue
    /\ outbox' = [outbox EXCEPT ![s] = Tail(@)]
    /\ LET req == Head(outbox[s]) IN
       /\ inbox' = Push(inbox, s,
                    [ev |-> req.ev, type |-> type, username |-> req.username])
       /\ srvName' = IF type = "confirm" THEN req.username ELSE srvName
    /\ clast' = CStep("server_answers", s, type, 0, 0)
    /\ UNCHANGED <<svars, variant, socket, username, sigintCount, timeout,
                   question, exited, rlClosed, readyState, listeners,
                   awaiting>>

\* What a handshake listener does with the server's answer.  kind: the
\* listener of the 'Server: ' callback ("initial") or the one the reconnect
\* listener installed ("reconnect").
\* (Variant that goes on whatever the answer is.)
onHandshake_NoCheck(kind, type, L) ==
    [exit |-> FALSE, close |-> FALSE, ls |-> chat(L, socket),
     clear |-> kind = "initial" /\ variant = "timeout"]

onHandshake(kind, type, L) ==
    IF type # "confirm"
    THEN [exit |-> TRUE, close |-> kind = "reconnect", ls |-> L,
          clear |-> FALSE]
    ELSE [exit |-> FALSE, close |-> FALSE, ls |-> chat(L, socket),
          clear |-> kind = "initial" /\ variant = "timeout"]

\* Socket s receives the oldest event the server has sent to it.
Receive(s) ==
    /\ ~exited
    /\ readyState[s] = "open"
    /\ inbox[s] # <<>>
    /\ LET m == Head(inbox[s])
           rest == [inbox EXCEPT ![s] = Tail(@)]
           step == CStep(m.ev, s, m.type, 0, 0)
       IN
          IF m.ev = "handshake" /\ listeners[s].hs # <<>>
          THEN LET kind == Head(listeners[s].hs)
                   r == onHandshake(kind, m.type,
                            [listeners EXCEPT ![s].hs = Tail(@)])
               IN  IF r.exit
                   THEN Exit(r.close, step)
                   ELSE /\ listeners' = r.ls
                        /\ timeout' = (timeout /\ ~r.clear)
                        /\ awaiting' = FALSE
                        /\ inbox' = rest
                        /\ clast' = step
                        /\ UNCHANGED <<variant, socket, username,
                                       sigintCount, question, exited,
                                       rlClosed, readyState, outbox, srvName>>
          ELSE /\ IF m.ev = "username" /\ listeners[s].username > 0
                  THEN /\ listeners' = [listeners EXCEPT ![s].username = 0]
                       /\ username' = IF m.type = "confirm" THEN m.username
                                      ELSE username
                  ELSE UNCHANGED <<listeners, username>>
               /\ inbox' = rest
               /\ clast' = step
               /\ UNCHANGED <<variant, socket, sigintCount, timeout, question,
                              exited, rlClosed, readyState, outbox, srvName,
                              awaiting>>
    /\ UNCHANGED svars

\* How many message listeners run when a message reaches sockets 1..n.
RECURSIVE Shown(_)
Shown(n) ==
    IF n = 0 THEN 0
    ELSE Shown(n - 1)
         + (IF readyState[n] = "open" THEN listeners[n].message ELSE 0)

\* The server broadcasts a notice to a room every connection of this client
\* is in (each socket the server still has of it is in default).
Message ==
    /\ ~exited
    /\ \E s \in Sockets : readyState[s] = "open"
    /\ clast' = CStep("message", 0, "", 0, Shown(MaxSockets))
    /\ UNCHANGED <<svars, variant, socket, username, sigintCount, timeout,
                   question, exited, rlClosed, readyState, listeners, outbox,
                   inbox, srvName, awaiting>>

\* The setTimeout of the 'Username: ' callback runs out.
TimeoutFires ==
    /\ ~exited
    /\ timeout
    /\ Exit(FALSE, CStep("timeout", socket, "", 0, 0))
    /\ UNCHANGED svars

NextClient ==
    \/ QuestionServer
    \/ \E s \in Sockets : Connect(s)
    \/ \E input \in NameLines : QuestionUsername(input)
    \/ Sigint
    \/ \E answer \in AnswerLines : QuestionExit(answer)
    \/ LineChat
    \/ \E arg \in NameLines \ {""} : CmdUsername(arg)
    \/ \E s \in Sockets, reason \in Involuntary \cup {ClientClose} :
            SocketDisconnect(s, reason)
    \/ \E s \in Sockets : Reconnect(s)
    \/ \E s \in Sockets, type \in {"confirm", "denied"} : ServerAnswers(s, type)
    \/ \E s \in Sockets : Receive(s)
    \/ Message
    \/ TimeoutFires

SpecClient == InitClient /\ [][NextClient]_vars

\* ================================================================= claims
Registered(c) == ById(users, c) # 0
Entry(c) == users[ById(users, c)]
Holders(us, name) == {i \in 1..Len(us) : us[i].username = name}
OpenConns == {c \in Conns : connected[c] = "open"}
\* Every connection the last step delivered something to.
Delivered == UNION {emitted[i].rcpt : i \in 1..Len(emitted)}
\* The room contents of every registry entry are the same after the step.
SameRegistry ==
    /\ users' = users
    /\ \A i \in 1..Len(users) :
            RoomsIn(users'[i], sockRooms') = RoomsIn(users[i], sockRooms)

\* C1: no two entries of the users registry have the same username, in every
\* state reachable by first handshakes, reconnection handshakes, renames and
\* disconnects.
C1_UniqueUsernames ==
    \A i, j \in 1..Len(users) :
        i # j => users[i].username # users[j].username

C3_ConfirmedHandshake ==
    [][ (last'.op = "handshake" /\ last'.flag
            /\ Holders(users, last'.arg) = {})
        => /\ Len(users') = Len(users) + 1
           /\ SubSeq(users', 1, Len(users)) = users
           /\ users'[Len(users')].id = last'.c
           /\ users'[Len(users')].username = last'.arg
           /\ Range(RoomsIn(users'[Len(users')], sockRooms'))
                = {last'.c, "default"}
           /\ \E i, j \in 1..Len(emitted') :
                /\ i < j
                /\ emitted'[i].ev = "handshake"
                /\ emitted'[i].to = last'.c
                /\ emitted'[i].data = [type |-> "confirm"]
                /\ emitted'[j].ev = "message"
                /\ emitted'[j].to = "default"
                /\ emitted'[j].data =
                        Notice(<<"joined", last'.arg, "default">>) ]_vars

\* C4: a whisper whose target matches no registered username delivers exactly
\* one notice ('No user found ...') to the sender's connection and nothing to
\* any other connection.  (Stated for a whisper handled with no join callback
\* pending, its weakest reading.)
C4_WhisperNotFound ==
    (last.op = "whisper" /\ ticks = <<>> /\ Holders(users, last.arg) = {})
    => /\ Len(emitted) = 1
       /\ emitted[1].ev = "message"
       /\ emitted[1].data = Notice(<<"nouser", last.arg>>)
       /\ emitted[1].rcpt = {last.c}

\* C5: a whisper whose target resolves to a registered user T is received by
\* T's connection and by no other connection.  (Stated for a whisper handled
\* with no join callback pending, its weakest reading.)
C5_TellToTargetOnly ==
    (last.op = "whisper" /\ ticks = <<>> /\ Holders(users, last.arg) # {})
    => /\ Len(emitted) = 1
       /\ emitted[1].data.type = "tell"
       /\ emitted[1].rcpt = {users[ByUsername(users, last.arg)].id}

\* C6: handleSend and the join notice of handleChangeRoom never emit to a
\* room whose name is the identifier of a live connection.
C6_NoBroadcastToIdRoom ==
    (last.op \in {"send", "joined"})
    => \A i \in 1..Len(emitted) : emitted[i].to \notin OpenConns

\* C7: between event handlers, the room set of every registered user is its
\* own identity-room plus exactly one other room.
C7_OneChatRoom ==
    (ticks = <<>>)
    => \A i \in 1..Len(users) :
            /\ users[i].id \in Range(RoomsOf(users[i]))
            /\ Cardinality(Range(RoomsOf(users[i])) \ {users[i].id}) = 1

\* C8: once a registered user's room request for a room r missing from the
\* directory is fully processed (its join callback has run), the directory
\* holds {name: r, createdBy: requester}, the requester's room set is exactly
\* {own id, r}, and the room it was in before is not in it.
C8_NewRoomJoined ==
    (last.op = "joined" /\ last.flag /\ ~crashed)
    => /\ \E k \in 1..Len(rooms) :
            rooms[k] = [name |-> last.arg, createdBy |-> last.c]
       /\ Registered(last.c)
       /\ Range(RoomsOf(Entry(last.c))) = {last.c, last.arg}

\* C9: a send from a registered user A is delivered to every other connection
\* in A's current chat room, and to no connection that is only in rooms A has
\* not joined.  (A's current chat room, read as weakly as the claim allows:
\* for "every", a room that both the registry entry and the transport have A
\* in; for "no", any room either of them has A in.)
C9_SendReachesRoom ==
    (last.op = "send" /\ Registered(last.c))
    => LET A == last.c
           reg == Range(RoomsOf(Entry(A))) \ {A}
           net == sids[A] \ {A}
       IN  /\ \A r \in reg \cap net :
                Members(sids, r) \ {A} \subseteq Delivered
           /\ \A d \in Delivered \ {A} :
                sids[d] \cap (reg \cup net) # {}

\* C10: a username request for a name held by a different connection is
\* answered with a username response {type: denied} delivered to the
\* requester, and leaves every registry entry (id, username, rooms) as it was.
C10_RenameDenied ==
    [][ (last'.op = "username"
            /\ \E i \in Holders(users, last'.arg) : users[i].id # last'.c)
        => /\ emitted' # <<>>
           /\ emitted'[1].ev = "username"
           /\ emitted'[1].data = [type |-> "denied"]
           /\ last'.c \in emitted'[1].rcpt
           /\ \A i \in 1..Len(emitted') :
                emitted'[i].ev = "username" => i = 1
           /\ SameRegistry ]_vars

C10_Witness ==
    /\ last.op = "username"
    /\ Registered(last.c)
    /\ Entry(last.c).username # last.arg
    /\ \E i \in Holders(users, last.arg) : users[i].id # last.c
    /\ emitted # <<>> /\ emitted[1].data = [type |-> "denied"]

\* C11: a username request is denied only when the requested name is held by
\* a connection other than the requester; a registered user asking for the
\* name it already holds gets confirm.
C11_DeniedOnlyForOthers ==
    (last.op = "username" /\ ~crashed /\ emitted # <<>>
        /\ \E k \in 1..Len(emitted) :
                emitted[k].ev = "username" /\ emitted[k].data.type = "denied")
    => \E i \in Holders(users, last.arg) : users[i].id # last.c

\* The (user, room) pairs list_users has a line for.
ListedPairs ==
    {<<i, r>> \in (1..Len(users)) \X (PlainRooms \cup Conns) :
        r \in Range(RoomsOf(users[i])) \ {users[i].id}}

\* C12: list_users delivers to the requesting connection only; it delivers one
\* notice per pair (u, r) of a registered user u and a room r of u's room set
\* other than u's own identity-room, and no line names the identity-room of
\* the user it describes.
C12_ListUsersToRequester ==
    (last.op = "list_users")
    => /\ Delivered \subseteq {last.c}
       /\ Len(emitted) = Cardinality(ListedPairs)
       /\ \A k \in 1..Len(emitted) :
            /\ emitted[k].data.type = "notice"
            /\ emitted[k].data.message[4] # emitted[k].data.message[2]

\* C13: a connection with no registry entry (no handshake yet, or first
\* handshake denied) takes no part in chat traffic: a send from it is
\* multicast to no room, and nothing broadcast to a chat room reaches it.
C13_InactiveNoTraffic ==
    /\ (last.op = "send" /\ ~Registered(last.c)) => emitted = <<>>
    /\ \A k \in 1..Len(emitted) :
            (emitted[k].ev = "message" /\ emitted[k].to \notin Conns)
            => \A d \in emitted[k].rcpt : Registered(d)

\* C14: after a reconnection handshake {first: false, username: u} on
\* connection c', the registry has exactly one entry with username u, its id
\* is c', and the handshake was answered with confirm.
C14_ReconnectReplaces ==
    (last.op = "handshake" /\ ~last.flag)
    => /\ \A i \in Holders(users, last.arg) : users[i].id = last.c
       /\ Cardinality(Holders(users, last.arg)) = 1
       /\ Len(emitted) = 1
       /\ emitted[1].ev = "handshake"
       /\ emitted[1].data = [type |-> "confirm"]

\* C15: after a confirmed reconnection handshake the user is registered under
\* the same username and is in the chat room it was in before the drop.
\* (Stated where the room before the drop is still on record: the server
\* has not yet processed the disconnect of the user's old connection, whose
\* entry stays as it was.)
C15_ReconnectKeepsRoom ==
    (last.op = "handshake" /\ ~last.flag /\ ticks = <<>>)
    => /\ Registered(last.c)
       /\ Entry(last.c).username = last.arg
       /\ \A i \in Holders(users, last.arg) :
            Range(RoomsOf(users[i])) \ {users[i].id}
                = Range(RoomsOf(Entry(last.c))) \ {last.c}

\* C16: processing a connection's disconnect leaves no registry entry with
\* that connection's id, every other entry (id, username, rooms) and the whole
\* room directory as they were, and changes nothing when the connection had no
\* entry; a later first handshake, from another connection, for a username
\* that the disconnect freed (no entry holds it any more) is confirmed.
C16_DisconnectRemovesEntry ==
    [][ /\ (last'.op = "disconnect")
           => /\ \A i \in 1..Len(users') : users'[i].id # last'.c
              /\ users' = SelectSeq(users, LAMBDA user : user.id # last'.c)
              /\ \A i \in 1..Len(users) :
                    users[i].id # last'.c
                    => RoomsIn(users[i], sockRooms')
                            = RoomsIn(users[i], sockRooms)
              /\ rooms' = rooms
              /\ (~Registered(last'.c) => users' = users)
        /\ (last'.op = "handshake" /\ last'.flag
                /\ Holders(users, last'.arg) = {}
                /\ \E d \in Conns \ {last'.c} : connected[d] = "closed")
           => /\ emitted' # <<>>
              /\ emitted'[1].ev = "handshake"
              /\ emitted'[1].data = [type |-> "confirm"]
              /\ last'.c \in emitted'[1].rcpt
              /\ \E i \in Holders(users', last'.arg) :
                    users'[i].id = last'.c ]_vars

\* A connection that was registered (the join callback of its room request
\* ran) has been disconnected, and the other user's entry is still there.
C16_Witness ==
    /\ last.op = "disconnect"
    /\ \E k \in 1..Len(rooms) : rooms[k].createdBy = last.c
    /\ ~Registered(last.c)
    /\ Len(users) = 1

\* C17: no inbound event puts the server into a crashed state.
C17_NeverCrashes == ~crashed

\* The last step was a request the server did not carry out.
NotCarriedOut ==
    \/ last.op = "handshake_again"
    \/ last.op = "handshake" /\ last.flag /\ ~Registered(last.c)
    \/ last.op = "username" /\ ~crashed /\ Registered(last.c)
            /\ Entry(last.c).username # last.arg
    \/ last.op = "whisper" /\ Holders(users, last.arg) = {}
    \/ last.op = "send" /\ Range(sockRooms[last.c]) \ {last.c} = {}

\* C18: every request the server does not carry out (a denied first
\* handshake, a denied rename, a whisper to nobody, a second handshake event
\* on a connection, a send from a connection whose room set has no chat room)
\* delivers at least one response to the requester.
C18_NoSilentDrop ==
    NotCarriedOut => last.c \in Delivered

\* The directory, while the server runs, lists the system's default room and
\* no name twice.
DirectoryOk(dir) ==
    /\ [name |-> "default", createdBy |-> "system"] \in Range(dir)
    /\ \A i, j \in 1..Len(dir) : dir[i].name = dir[j].name => i = j

\* C20: in every state of the running server the room directory holds
\* {name: default, createdBy: system}; no step removes a descriptor or changes
\* the createdBy of one; no two descriptors have the same name, and a room
\* request for a name the directory has adds nothing.
C20_DirectoryGrowsOnly ==
    [][ ~crashed'
        => /\ DirectoryOk(rooms)
           /\ DirectoryOk(rooms')
           /\ Len(rooms') >= Len(rooms)
           /\ SubSeq(rooms', 1, Len(rooms)) = rooms
           /\ (last'.op = "room"
                /\ \E i \in 1..Len(rooms) :
                    rooms[i].name
                        = (IF last'.arg # "" THEN last'.arg ELSE "default"))
              => rooms' = rooms ]_vars

C20_Witness ==
    /\ last.op = "room"
    /\ last.arg = "foo"
    /\ Len(rooms) = 2
    /\ rooms[2].name = "foo"
    /\ rooms[2].createdBy # last.c

\* C19: in the multi-channel server the state of one channel is invisible in
\* another: a first handshake for a username that only users of other
\* channels hold is confirmed, list_users lists users of the requester's
\* channel only, a whisper to a name that only users of other channels hold
\* gets the not-found notice, and a room request for a name that only
\* connections of other channels have created is handled as a new room.
C19_ChannelsIsolated ==
    [][ LET c == last'.c
            elsewhere(id) == id \in Conns /\ nsp[id] # nsp[c]
            targetRoom == IF last'.arg # "" THEN last'.arg ELSE "default"
        IN  /\ (last'.op = "handshake" /\ last'.flag
                    /\ \A i \in Holders(users, last'.arg) :
                            elsewhere(users[i].id))
               => /\ emitted' # <<>>
                  /\ emitted'[1].data = [type |-> "confirm"]
            /\ (last'.op = "list_users")
               => \A k \in 1..Len(emitted') :
                        ~elsewhere(emitted'[k].data.message[2])
            /\ (last'.op = "whisper"
                    /\ \A i \in Holders(users, last'.arg) :
                            elsewhere(users[i].id))
               => \E k \in 1..Len(emitted') :
                        /\ emitted'[k].data = Notice(<<"nouser", last'.arg>>)
                        /\ c \in emitted'[k].rcpt
            /\ (last'.op = "room"
                    /\ \A i \in 1..Len(rooms) :
                            rooms[i].name = targetRoom
                            => elsewhere(rooms[i].createdBy))
               => \E k \in 1..Len(emitted') :
                        emitted'[k].data = Notice(<<"newroom", targetRoom>>)
      ]_vars

\* C21: a room request whose room name is the empty string is handled as a
\* request for default: it adds no descriptor to the directory and queues the
\* joins of the identity-room and of default; once the join callback for
\* default has run, the requester's room set is exactly {own id, default} and
\* the join notice has been broadcast to default.  (The callback knows the
\* target room only, so the second half covers every request for default.)
C21_EmptyRoomIsDefault ==
    [][ LET c == last'.c IN
        /\ (last'.op = "room" /\ last'.arg = "" /\ ~crashed')
           => /\ rooms' = rooms
              /\ sids'[c] = {c, "default"}
              /\ Len(ticks') = Len(ticks) + 2
              /\ ticks'[Len(ticks')].room = "default"
              /\ ticks'[Len(ticks')].fn
        /\ (last'.op = "joined" /\ last'.arg = "default" /\ ~crashed')
           => /\ rooms' = rooms
              /\ \E i \in 1..Len(users') :
                    /\ users'[i].id = c
                    /\ Range(RoomsIn(users'[i], sockRooms'))
                            = {c, "default"}
                    /\ emitted' # <<>>
                    /\ emitted'[1].to = "default"
                    /\ emitted'[1].data =
                        Notice(<<"joined", users'[i].username, "default">>)
      ]_vars

\* C26: a username request from registered user A for a name nobody holds
\* emits the rename notice (old and new name) to every room of A's room set
\* but A's identity-room, changes only the username field of A's entry, and
\* emits exactly one username response {type: confirm, username: n}, to A's
\* connection, after the notice.  (A's room set read as weakly as the claim
\* allows: the rooms both the registry entry and the transport have A in.)
C26_RenameConfirmed ==
    [][ (last'.op = "username" /\ Registered(last'.c)
            /\ Holders(users, last'.arg) = {})
        => LET A == last'.c
               n == last'.arg
               i == ById(users, A)
               old == users[i].username
               reg == Range(RoomsOf(users[i])) \ {A}
               net == sids[A] \ {A}
               last_k == Len(emitted')
           IN  /\ \A r \in reg \cap net :
                    \E k \in 1..Len(emitted') :
                        /\ emitted'[k].ev = "message"
                        /\ emitted'[k].to = r
                        /\ emitted'[k].data = Notice(<<"renamed", old, n>>)
               /\ Len(users') = Len(users)
               /\ \A j \in 1..Len(users) :
                    /\ users'[j].id = users[j].id
                    /\ RoomsIn(users'[j], sockRooms')
                            = RoomsIn(users[j], sockRooms)
                    /\ users'[j].username
                            = (IF j = i THEN n ELSE users[j].username)
               /\ rooms' = rooms
               /\ emitted' # <<>>
               /\ emitted'[last_k].ev = "username"
               /\ emitted'[last_k].data
                    = [type |-> "confirm", username |-> n]
               /\ A \in emitted'[last_k].rcpt
               /\ \A k \in 1..Len(emitted') :
                    emitted'[k].ev = "username" => k = last_k ]_vars

C22_VoluntaryDisconnect ==
    [][ LET s == clast'.s IN
        /\ (clast'.op = "disconnect" /\ listeners[s].disconnect > 0)
           => IF clast'.arg = ClientClose
              THEN /\ socket' = socket
                   /\ \A t \in Sockets :
                        /\ readyState'[t] = "opening"
                                => readyState[t] = "opening"
                        /\ Len(outbox'[t]) <= Len(outbox[t])
                   /\ readyState'[s] = "closed"
              ELSE /\ socket' = socket + 1
                   /\ readyState'[socket'] = "opening"
        /\ (socket # 0 /\ socket' # socket /\ ~exited')
           => clast'.op = "disconnect" /\ clast'.arg \in Involuntary
        /\ (clast'.op = "reconnect" /\ clast'.sent > 0)
           => readyState[s] \in {"lost", "dropped"} ]_vars

\* The socket the client was Active on has been closed locally.
C22_Witness ==
    /\ clast.op = "disconnect"
    /\ clast.arg = ClientClose
    /\ clast.s = socket
    /\ readyState[socket] = "closed"
    /\ listeners[socket].message > 0
    /\ listeners[socket].disconnect = 0

\* C23: a client that receives a handshake response whose type is not confirm
\* terminates without becoming Active and without sending anything more; on a
\* reconnection handshake it closes its input first.
C23_DeniedHandshakeExits ==
    [][ LET s == clast'.s IN
        (clast'.op = "handshake" /\ clast'.arg # "confirm"
            /\ listeners[s].hs # <<>>)
        => /\ exited'
           /\ ~Active'
           /\ \A t \in Sockets : outbox'[t] = <<>>
           /\ (Head(listeners[s].hs) = "reconnect") => rlClosed' ]_vars

\* The answer to a reconnection handshake was a denial.
C23_Witness ==
    /\ clast.op = "handshake"
    /\ clast.arg = "denied"
    /\ exited
    /\ rlClosed

\* C24: while a handshake (initial or reconnection) is unanswered a timeout
\* is armed that ends the client, and once the client is Active no such
\* timeout is armed any more.
C24_HandshakeTimeout ==
    /\ awaiting => timeout
    /\ Active => ~timeout

\* A rename request or its answer is in flight on some socket.
RenameInFlight ==
    \E s \in Sockets :
        \/ \E k \in 1..Len(outbox[s]) : outbox[s][k].ev = "username"
        \/ \E k \in 1..Len(inbox[s]) : inbox[s][k].ev = "username"

\* C25: in every copy of the client, the local username of a client that is
\* Active changes only on receipt of a username response of type confirm,
\* and after a denied rename (no other rename under way) the local username
\* is the name the server has.
C25_UsernameCache ==
    [][ /\ (Active /\ ~exited' /\ username' # username)
           => clast'.op = "username" /\ clast'.arg = "confirm"
        /\ (clast'.op = "username" /\ clast'.arg = "denied"
                /\ Active' /\ ~RenameInFlight')
           => username' = srvName' ]_vars

\* C28: at any time at most one message listener is installed, and only on
\* the socket in use, so that a message reaching every connection the client
\* has is displayed at most once.
C28_OneMessageHandler ==
    /\ \A s \in Sockets :
            /\ listeners[s].message <= 1
            /\ s # socket => listeners[s].message = 0
    /\ clast.shown <= 1

\* A message is displayed once while a superseded socket, reconnected by its
\* manager, is open next to the one in use.
C28_Witness ==
    /\ clast.op = "message"
    /\ clast.shown = 1
    /\ socket > 1
    /\ \E s \in Sockets : s # socket /\ readyState[s] = "open"
    /\ readyState[socket] = "open"

\* C29: after an involuntary drop of the connection in use (of a client that
\* had been Active), the reconnect event makes the client send exactly one
\* handshake {first: false, username} with its cached username; and when the
\* confirm for such a handshake arrives the client is Active with message,
\* disconnect and reconnect listeners on the socket the handshake was sent
\* on.  This holds for every drop.  (Read weakly: a reconnect event need not
\* send the handshake while a reconnect listener armed on another socket is
\* still going to.)
C29_ReconnectHandshake ==
    [][ LET s == clast'.s IN
        /\ (clast'.op = "reconnect" /\ clast'.arg = "lost" /\ socket > 1
                /\ \A t \in Sockets \ {s} : listeners[t].reconnect = 0)
           => /\ clast'.sent = 1
              /\ outbox'[socket] # <<>>
              /\ outbox'[socket][Len(outbox'[socket])] =
                    [ev |-> "handshake", first |-> FALSE,
                     username |-> username]
        /\ (clast'.op = "handshake" /\ clast'.arg = "confirm"
                /\ listeners[s].hs # <<>>
                /\ Head(listeners[s].hs) = "reconnect")
           => /\ Active'
              /\ socket' = s
              /\ listeners'[s].message = 1
              /\ listeners'[s].disconnect = 1
              /\ listeners'[s].reconnect = 1 ]_vars

\* C30: a first interrupt opens the yes/no prompt; a second interrupt while
\* the prompt is outstanding ends the process; the answers y and yes, in any
\* case, end it; any other answer sets the counter to 0 and resumes input.
C30_InterruptPrompt ==
    [][ /\ (clast'.op = "sigint" /\ sigintCount = 0)
           => ~exited' /\ question' = "exit"
        /\ (clast'.op = "sigint" /\ question = "exit")
           => exited'
        /\ (clast'.op = "exit_q")
           => IF clast'.arg \in {"y", "Y", "yes", "Yes", "YES"}
              THEN exited'
              ELSE ~exited' /\ sigintCount' = 0 /\ question' = "none"
      ]_vars

\* C31: the registry never holds two entries with the same connection id: a
\* handshake event is handled only while the once listener of its connection
\* is installed, which it then no longer is, and any further handshake event
\* of the connection changes nothing in the registry and sends nothing.
C31_OneEntryPerConnection ==
    [][ /\ \A i, j \in 1..Len(users') :
                users'[i].id = users'[j].id => i = j
        /\ last'.op = "handshake"
           => /\ once[last'.c] /\ ~once'[last'.c]
              /\ Len(users') <= Len(users) + 1
        /\ last'.op = "handshake_again"
           => /\ ~once[last'.c]
              /\ users' = users
              /\ emitted' = <<>> ]_vars

\* A registered connection has sent a second handshake.
C31_Witness ==
    /\ last.op = "handshake_again"
    /\ Registered(last.c)
    /\ Len(users) = 2

\* The notices the server writes itself: join, rename, room created, user
\* not found, name in use, user list.
ServerNotices == {"joined", "renamed", "newroom", "nouser", "inuse", "user"}

\* C32: every message of type notice that is delivered to a connection was
\* written by the server; what a registered client puts in a send event is
\* never delivered to another connection with type notice.
C32_NoticesFromServer ==
    \A i \in 1..Len(emitted) :
        (/\ emitted[i].ev = "message"
         /\ emitted[i].data.type = "notice"
         /\ IF last.op = "send"
            THEN Registered(last.c) /\ emitted[i].rcpt \ {last.c} # {}
            ELSE emitted[i].rcpt # {})
        => emitted[i].data.message[1] \in ServerNotices

\* C33: a tell that is delivered carries in from, and a chat that is
\* delivered carries in username, the name the registry has for the
\* connection that sent it.
C33_SenderNameIsRegistered ==
    (last.op \in {"send", "whisper"} /\ Registered(last.c))
    => \A i \in 1..Len(emitted) :
         (emitted[i].ev = "message" /\ emitted[i].rcpt # {})
         => /\ emitted[i].data.type = "tell"
                => emitted[i].data.from = Entry(last.c).username
            /\ emitted[i].data.type = "chat"
                => emitted[i].data.username = Entry(last.c).username

\* C37: whenever no handler and no join callback is pending, the rooms value
\* of every registry entry holds exactly the rooms the transport has the
\* entry's connection in.
C37_RegistryMatchesTransport ==
    (~crashed /\ ticks = <<>>)
    => \A i \in 1..Len(users) :
            Range(RoomsOf(users[i])) = sids[users[i].id]

\* C34: in client.js, whenever the client is Active and no rename request or
\* answer is in flight, the local username is the name the server has for
\* the client, however many renames were requested before the first answer.
C34_RenamesInSync ==
    (/\ variant = "current"
     /\ Active
     /\ readyState[socket] = "open"
     /\ srvName # ""
     /\ ~RenameInFlight)
    => username = srvName

\* C35: once a reconnection is complete the client has one connection to the
\* server, the socket in use: no socket it has replaced is connected.
C35_OneLiveConnection ==
    (Active /\ socket > 1)
    => /\ readyState[socket] = "open"
       /\ \A s \in Sockets \ {socket} : readyState[s] # "open"

\* C36: a chat line or a command typed while the answer to a handshake is
\* awaited, or after a drop, is emitted only if the client is Active.
C36_EmitOnlyWhenActive ==
    [][ (clast'.op \in {"line", "cmd_username"} /\ (awaiting \/ socket > 1))
        => Active ]_vars

====
